---------------------------- MODULE Spec2Model ----------------------------
(***************************************************************************)
(* A model of rasterizer.js: the Polygon (vertices, edges, the scan-line   *)
(* fill computeFilledSquares), the Canvas tile grid, the Rasterizer wiring *)
(* (localStorage settings, debounced persistence, redraw listeners).       *)
(*                                                                         *)
(* JavaScript numbers are modelled as exact rationals [n, d] (d > 0, in    *)
(* lowest terms) together with NaN, +Infinity and -Infinity (d = 0).       *)
(* IEEE-754 rounding and the sign of zero are not modelled.                *)
(***************************************************************************)
EXTENDS Integers, Sequences, FiniteSets, TLC

VARIABLES
    input,        \* the arguments handed to the program (options, pointer data)
    pc,           \* where the page is: "start", "constructed", "running", "threw"
    storage,      \* localStorage item 'rasterizer.settings'
    vertices,     \* Polygon.vertices: the cx/cy attributes of each <circle>
    edges,        \* Polygon.edges: the x1/y1/x2/y2 attributes of each <line>
    squares,      \* the last value returned by computeFilledSquares
    prevSquares,  \* the value returned by the call before that one
    permSquares,  \* the fill accumulated over the edges in another order
    xValues,      \* xValues as one edge's accumulation from empty left it
    positions,    \* the last value returned by vertexPositions
    tiles,        \* Canvas.tiles: rows of tile fills
    tilesBefore,  \* the tiles as the last call of setActiveTiles on a bare
                  \* Canvas found them (history)
    clientSize,   \* svg.clientWidth / svg.clientHeight
    moveTimer,    \* resizeTimer of the 'shape.move' delayed listener (ms left)
    winTimer,     \* resizeTimer of the window 'resize' delayed listener (ms left)
    sinceNotify,  \* ms since the last polygon 'shape.move' event (history)
    burstNotes,   \* 'shape.move' events of the current burst, capped (history)
    burstWrites,  \* storage writes since the current burst of events began (history)
    redrawLog     \* what each redraw of the last handler saw (history)

vars == <<input, pc, storage, vertices, edges, squares, prevSquares, permSquares, xValues,
          positions, tiles, tilesBefore, clientSize, moveTimer, winTimer, sinceNotify,
          burstNotes, burstWrites, redrawLog>>

-----------------------------------------------------------------------------
(* JavaScript numbers *)

RECURSIVE GCD(_, _)
GCD(a, b) == IF b = 0 THEN a ELSE GCD(b, a % b)

Abs(i) == IF i < 0 THEN -i ELSE i

Sign(i) == IF i < 0 THEN -1 ELSE IF i > 0 THEN 1 ELSE 0

\* Integer division rounding toward zero (d > 0).
TruncDiv(n, d) == IF n >= 0 THEN n \div d ELSE -((-n) \div d)

NaN == [n |-> 0, d |-> 0]
PosInf == [n |-> 1, d |-> 0]
NegInf == [n |-> -1, d |-> 0]

\* The rational n/d (d # 0) in lowest terms with a positive denominator.
\* (Here and below the first branch is the whole-number case, computed directly.)
Rat(n, d) ==
    IF d = 1 THEN [n |-> n, d |-> 1]
    ELSE LET g == GCD(Abs(n), Abs(d)) * (IF d < 0 THEN -1 ELSE 1)
         IN  [n |-> n \div g, d |-> d \div g]

Num(i) == [n |-> i, d |-> 1]

IsNaN(a) == a.d = 0 /\ a.n = 0
IsFinite(a) == a.d # 0
IsInteger(a) == a.d = 1

Neg(a) == [n |-> -a.n, d |-> a.d]

Add(a, b) ==
    IF a.d = 1 /\ b.d = 1 THEN [n |-> a.n + b.n, d |-> 1]
    ELSE IF IsNaN(a) \/ IsNaN(b) THEN NaN
    ELSE IF ~IsFinite(a) /\ ~IsFinite(b) THEN (IF a.n = b.n THEN a ELSE NaN)
    ELSE IF ~IsFinite(a) THEN a
    ELSE IF ~IsFinite(b) THEN b
    ELSE Rat(a.n * b.d + b.n * a.d, a.d * b.d)

Sub(a, b) == Add(a, Neg(b))

Mul(a, b) ==
    IF a.d = 1 /\ b.d = 1 THEN [n |-> a.n * b.n, d |-> 1]
    ELSE IF IsNaN(a) \/ IsNaN(b) THEN NaN
    ELSE IF IsFinite(a) /\ IsFinite(b) THEN Rat(a.n * b.n, a.d * b.d)
    ELSE IF a.n = 0 \/ b.n = 0 THEN NaN
    ELSE [n |-> Sign(a.n) * Sign(b.n), d |-> 0]

\* a / b: a finite number over zero is an infinity, 0/0 is NaN.
Div(a, b) ==
    IF IsNaN(a) \/ IsNaN(b) THEN NaN
    ELSE IF ~IsFinite(a) THEN
        (IF ~IsFinite(b) THEN NaN
         ELSE [n |-> a.n * (IF b.n < 0 THEN -1 ELSE 1), d |-> 0])
    ELSE IF ~IsFinite(b) THEN Num(0)
    ELSE IF b.n = 0 THEN (IF a.n = 0 THEN NaN ELSE [n |-> Sign(a.n), d |-> 0])
    ELSE Rat(a.n * b.d, a.d * b.n)

\* a % b: the remainder has the sign of the dividend.
Mod(a, b) ==
    IF a.d = 1 /\ b.d = 1 /\ b.n > 0 THEN [n |-> a.n - b.n * TruncDiv(a.n, b.n), d |-> 1]
    ELSE IF IsNaN(a) \/ IsNaN(b) \/ ~IsFinite(a) THEN NaN
    ELSE IF ~IsFinite(b) THEN a
    ELSE IF b.n = 0 THEN NaN
    ELSE LET q == Div(a, b)
         IN  Sub(a, Mul(b, Num(TruncDiv(q.n, q.d))))

Lt(a, b) ==
    IF a.d = 1 /\ b.d = 1 THEN a.n < b.n
    ELSE IF IsNaN(a) \/ IsNaN(b) THEN FALSE
    ELSE IF ~IsFinite(a) THEN a.n < 0 /\ b # NegInf
    ELSE IF ~IsFinite(b) THEN b.n > 0
    ELSE a.n * b.d < b.n * a.d

Le(a, b) == ~IsNaN(a) /\ ~IsNaN(b) /\ (a = b \/ Lt(a, b))

MathMin(a, b) == IF IsNaN(a) \/ IsNaN(b) THEN NaN ELSE IF Lt(b, a) THEN b ELSE a

MathMax(a, b) == IF IsNaN(a) \/ IsNaN(b) THEN NaN ELSE IF Lt(a, b) THEN b ELSE a

MathFloor(a) == IF IsFinite(a) THEN Num(a.n \div a.d) ELSE a

\* parseInt of the text of a finite number: the digits before the point.
parseInt(a) == IF IsFinite(a) THEN Num(TruncDiv(a.n, a.d)) ELSE NaN

\* Returns the closest (below) number that divides evenly into modulo.
floor(n, modulo) == MathFloor(Sub(n, Mod(n, modulo)))

-----------------------------------------------------------------------------
(* Vertex and Edge *)

\* Vertex(options): the <circle> with cx = options.x, cy = options.y.
Vertex(x, y) == [cx |-> x, cy |-> y]

VertexPosition(v) == [x |-> parseInt(v.cx), y |-> parseInt(v.cy)]

\* Edge(options): the <line> whose ends are copied from the two vertices.
Edge(leftVertex, rightVertex) ==
    [x1 |-> leftVertex.cx, y1 |-> leftVertex.cy,
     x2 |-> rightVertex.cx, y2 |-> rightVertex.cy]

EdgePosition(e) ==
    [x1 |-> parseInt(e.x1), y1 |-> parseInt(e.y1),
     x2 |-> parseInt(e.x2), y2 |-> parseInt(e.y2)]

\* An edge's listener on its leftVertex: copy cx, cy into x1, y1.
EdgeOnLeftMove(e, v) == [e EXCEPT !.x1 = v.cx, !.y1 = v.cy]

\* An edge's listener on its rightVertex: copy cx, cy into x2, y2.
EdgeOnRightMove(e, v) == [e EXCEPT !.x2 = v.cx, !.y2 = v.cy]

-----------------------------------------------------------------------------
(* Polygon *)

\* 150 + Math.cos(..) * 100 and 150 + Math.sin(..) * 100 for sides 3..6, in
\* thousandths (cut, not rounded, so that the whole part is the code's).
RadialTable ==
    [s \in 3..6 |->
        CASE s = 3 -> << <<236602, 200000>>, <<63397, 200000>>, <<149999, 50000>> >>
          [] s = 4 -> << <<242387, 188268>>, <<111731, 242387>>,
                         <<57612, 111731>>, <<188268, 57612>> >>
          [] s = 5 -> << <<245105, 180901>>, <<150000, 250000>>, <<54894, 180901>>,
                         <<91221, 69098>>, <<208778, 69098>> >>
          [] s = 6 -> << <<246592, 175881>>, <<175881, 246592>>, <<79289, 220710>>,
                         <<53407, 124118>>, <<124118, 53407>>, <<220710, 79289>> >>]

\* The radial default of vertex sideIndex (0-based) of a sides-sided polygon.
Radial(sideIndex, sides) ==
    LET p == RadialTable[sides][sideIndex + 1]
    IN  [x |-> Rat(p[1], 1000), y |-> Rat(p[2], 1000)]

\* options.points && options.points[sideIndex]: the list holds an entry (a
\* point object) at sideIndex; an absent list is the empty one.
HasPoint(points, sideIndex) == sideIndex + 1 <= Len(points)

\* Faulty variant: the supplied points are used only when all of them are there.
InitVerticesAllOrNone(sides, points) ==
    [i \in 1..sides |->
        IF Len(points) >= sides
        THEN Vertex(points[i].x, points[i].y)
        ELSE Vertex(Radial(i - 1, sides).x, Radial(i - 1, sides).y)]

\* The first loop of initializePieces: one Vertex per side.
InitVertices(sides, points) ==
    [i \in 1..sides |->
        IF HasPoint(points, i - 1)
        THEN Vertex(points[i].x, points[i].y)
        ELSE Vertex(Radial(i - 1, sides).x, Radial(i - 1, sides).y)]

\* The second loop of initializePieces: edge i joins vertex i to vertex i+1.
InitEdges(vs) ==
    [i \in 1..Len(vs) |-> Edge(vs[i], vs[(i % Len(vs)) + 1])]

\* Faulty variant: the span includes its right end: tileX <= xb.
RECURSIVE PushSpanInclusive(_, _, _, _, _)
PushSpanInclusive(sq, tileX, xb, y, tileSize) ==
    IF ~Le(tileX, xb) THEN sq
    ELSE LET col == Div(tileX, tileSize)
             row == Div(y, tileSize)
             old == IF col \in DOMAIN sq THEN sq[col] ELSE <<>>
             new == [c \in DOMAIN sq \cup {col} |->
                        IF c = col THEN Append(old, row) ELSE sq[c]]
         IN  PushSpanInclusive(new, Add(tileX, tileSize), xb, y, tileSize)

\* for (tileX = xa; tileX < xb; tileX += tileSize) squares[tileX/T].push(y/T)
RECURSIVE PushSpan(_, _, _, _, _)
PushSpan(sq, tileX, xb, y, tileSize) ==
    IF ~Lt(tileX, xb) THEN sq
    ELSE LET col == Div(tileX, tileSize)
             row == Div(y, tileSize)
             old == IF col \in DOMAIN sq THEN sq[col] ELSE <<>>
             new == [c \in DOMAIN sq \cup {col} |->
                        IF c = col THEN Append(old, row) ELSE sq[c]]
         IN  PushSpan(new, Add(tileX, tileSize), xb, y, tileSize)

\* Faulty variant: the span runs from the stored abscissa to the new one, unordered.
CrossingUnordered(acc, x, y, tileSize) ==
    IF y \in DOMAIN acc.xValues
    THEN [squares |-> PushSpan(acc.squares, acc.xValues[y], x, y, tileSize),
          xValues |-> [k \in DOMAIN acc.xValues \ {y} |-> acc.xValues[k]]]
    ELSE [squares |-> acc.squares,
          xValues |-> [k \in DOMAIN acc.xValues \cup {y} |->
                          IF k = y THEN floor(x, tileSize) ELSE acc.xValues[k]]]

\* The pairing rule of one crossing at scan-line y with floored abscissa x.
Crossing(acc, x, y, tileSize) ==
    IF y \in DOMAIN acc.xValues
    THEN LET xa == MathMin(x, acc.xValues[y])
             xb == MathMax(x, acc.xValues[y])
         IN  [squares |-> PushSpan(acc.squares, xa, xb, y, tileSize),
              xValues |-> [k \in DOMAIN acc.xValues \ {y} |-> acc.xValues[k]]]
    ELSE [squares |-> acc.squares,
          xValues |-> [k \in DOMAIN acc.xValues \cup {y} |->
                          IF k = y THEN floor(x, tileSize) ELSE acc.xValues[k]]]

\* for (y = ..; y <= yb; y += tileSize) of accumulateSquaresForEdge
RECURSIVE ScanLines(_, _, _, _, _, _)
ScanLines(acc, y, yb, b, m, tileSize) ==
    IF ~Le(y, yb) THEN acc
    ELSE LET x == floor(Div(Sub(y, b), m), tileSize)
         IN  ScanLines(Crossing(acc, x, y, tileSize),
                       Add(y, tileSize), yb, b, m, tileSize)

\* The scan-line the loop of accumulateSquaresForEdge starts at.
FirstScanLine(ya, tileSize) == Add(floor(ya, tileSize), tileSize)

accumulateSquaresForEdge(acc, edge, tileSize) ==
    LET position == EdgePosition(edge)
        half == Div(tileSize, Num(2))
        x1 == Add(position.x1, half)
        x2 == Add(position.x2, half)
        y1 == Sub(position.y1, half)
        y2 == Sub(position.y2, half)
        rise == Sub(y2, y1)
        run == Sub(x2, x1)
        m == IF run = Num(0) THEN Num(0) ELSE Div(rise, run)
        b == Sub(y1, Mul(m, x1))
        ya == MathMin(y1, y2)
        yb == MathMax(y1, y2)
    IN  ScanLines(acc, FirstScanLine(ya, tileSize), yb, b, m, tileSize)

\* edgeList.forEach(accumulateSquaresForEdge), from empty squares and xValues.
RECURSIVE ForEachEdge(_, _, _, _)
ForEachEdge(acc, edgeList, i, tileSize) ==
    IF i > Len(edgeList) THEN acc
    ELSE ForEachEdge(accumulateSquaresForEdge(acc, edgeList[i], tileSize),
                     edgeList, i + 1, tileSize)

EmptyMap == [k \in {} |-> 0]

computeFilledSquares(edgeList, tileSize) ==
    ForEachEdge([squares |-> EmptyMap, xValues |-> EmptyMap],
                edgeList, 1, Num(tileSize)).squares

vertexPositions(vs) == [i \in 1..Len(vs) |-> VertexPosition(vs[i])]

sides(vs) == Len(vs)

\* The tiles a column -> rows mapping names, as (column, row) pairs.
TilesOf(sq) ==
    UNION {{<<c.n, sq[c][j].n>> : j \in 1..Len(sq[c])} : c \in DOMAIN sq}

-----------------------------------------------------------------------------
(* Canvas *)

TileActiveColor == "#db0167"

\* The number of steps of for (v = 0; v < length; v += tileSize).
Steps(length, tileSize) == IF length <= 0 THEN 0 ELSE (length + tileSize - 1) \div tileSize

\* redrawTiles: a fresh grid of unfilled tiles covering the client area.
redrawTiles(size, tileSize) ==
    [r \in 1..Steps(size.height, tileSize) |->
        [c \in 1..Steps(size.width, tileSize) |-> "none"]]

\* (tiles[y] || [])[x] is a tile: y indexes a row and x a tile of that row.
TileAt(ts, x, y) ==
    /\ IsInteger(y) /\ y.n >= 0 /\ y.n < Len(ts)
    /\ IsInteger(x) /\ x.n >= 0 /\ x.n < Len(ts[y.n + 1])

\* Object.entries(activeTiles) with each ys spread: the (x, y) pairs named.
Entries(activeTiles) ==
    UNION {{<<x, activeTiles[x][j]>> : j \in 1..Len(activeTiles[x])} :
              x \in DOMAIN activeTiles}

\* tiles.forEach(row => row.forEach(tile => tile.el.style.fill = 'none'))
ResetFills(ts) == [r \in 1..Len(ts) |-> [c \in 1..Len(ts[r]) |-> "none"]]

\* const tile = (tiles[y] || [])[x]; if (tile) its fill becomes the active color.
FillTile(ts, x, y) ==
    IF TileAt(ts, x, y)
    THEN [ts EXCEPT ![y.n + 1][x.n + 1] = TileActiveColor]
    ELSE ts

\* The two nested forEach loops over the entries (their order does not matter).
RECURSIVE FillEach(_, _)
FillEach(ts, entries) ==
    IF entries = {} THEN ts
    ELSE LET e == CHOOSE e \in entries : TRUE
         IN  FillEach(FillTile(ts, e[1], e[2]), entries \ {e})

\* Faulty variant: the fills of the last call are not reset first.
setActiveTilesNoReset(ts, activeTiles) == FillEach(ts, Entries(activeTiles))

setActiveTilesDict(ts, activeTiles) == FillEach(ResetFills(ts), Entries(activeTiles))

-----------------------------------------------------------------------------
(* Moving a vertex *)

\* The 'shape.move' listeners the Edge constructors add, in the order they are
\* added: edge e on its leftVertex (vertex e), then on its rightVertex.
Registrations(n) ==
    [j \in 1..(2 * n) |->
        LET e == (j + 1) \div 2
        IN  IF j % 2 = 1
            THEN [edge |-> e, side |-> "left", vertex |-> e]
            ELSE [edge |-> e, side |-> "right", vertex |-> (e % n) + 1]]

\* The listeners of vertex k, in dispatch order.
ListenersOf(k, n) == SelectSeq(Registrations(n), LAMBDA r : r.vertex = k)

\* The edges once the first j listeners of the moved vertex v have run.
RECURSIVE EdgesAfter(_, _, _, _)
EdgesAfter(es, v, ls, j) ==
    IF j = 0 THEN es
    ELSE LET before == EdgesAfter(es, v, ls, j - 1)
             l == ls[j]
         IN  [before EXCEPT ![l.edge] =
                 IF l.side = "left" THEN EdgeOnLeftMove(before[l.edge], v)
                 ELSE EdgeOnRightMove(before[l.edge], v)]

\* handleMove: the cx, cy of the dragged vertex become newX, newY.
MovedVertices(vs, k, newX, newY) == [vs EXCEPT ![k] = Vertex(newX, newY)]

-----------------------------------------------------------------------------
(* The Polygon on its own: construction, fill, vertex move *)

Pt(x, y) == [x |-> Num(x), y |-> Num(y)]

canvasVars == <<tiles, tilesBefore, clientSize>>
timerVars == <<moveTimer, winTimer, sinceNotify, burstNotes, burstWrites>>
outVars == <<squares, prevSquares, permSquares, xValues, positions>>

\* The values of the variables a specification does not use.
Idle ==
    /\ storage = [kind |-> "absent"]
    /\ vertices = <<>> /\ edges = <<>>
    /\ squares = EmptyMap /\ prevSquares = EmptyMap /\ permSquares = EmptyMap
    /\ xValues = EmptyMap
    /\ positions = <<>>
    /\ tiles = <<>> /\ tilesBefore = <<>> /\ clientSize = [width |-> 0, height |-> 0]
    /\ moveTimer = -1 /\ winTimer = -1
    /\ sinceNotify = -1 /\ burstNotes = 0 /\ burstWrites = 0
    /\ redrawLog = <<>>

\* Polygon(options): initializePieces builds the vertices, then the edges.
PolygonNew ==
    /\ pc = "start"
    /\ pc' = "built"
    /\ vertices' = InitVertices(input.sides, input.points)
    /\ edges' = InitEdges(vertices')
    /\ UNCHANGED <<input, storage, outVars, canvasVars, timerVars, redrawLog>>

\* polygon.computeFilledSquares(tileSize)
Fill ==
    /\ pc \in {"built", "moved"}
    /\ pc' = IF pc = "built" THEN "filled" ELSE "refilled"
    /\ squares' = computeFilledSquares(edges, input.tileSize)
    /\ prevSquares' = squares
    /\ UNCHANGED <<input, storage, vertices, edges, permSquares, xValues, positions,
                   canvasVars, timerVars, redrawLog>>

\* handleMove of vertex k and the edge listeners it dispatches to.
MoveVertex(k, p) ==
    /\ pc = "filled"
    /\ pc' = "moved"
    /\ vertices' = MovedVertices(vertices, k, p.x, p.y)
    /\ edges' = EdgesAfter(edges, vertices'[k], ListenersOf(k, Len(vertices)),
                           Len(ListenersOf(k, Len(vertices))))
    /\ UNCHANGED <<input, storage, outVars, canvasVars, timerVars, redrawLog>>

\* polygon.vertexPositions()
VertexPositions ==
    /\ pc = "built"
    /\ pc' = "read"
    /\ positions' = vertexPositions(vertices)
    /\ UNCHANGED <<input, storage, vertices, edges, squares, prevSquares,
                   permSquares, xValues, canvasVars, timerVars, redrawLog>>

\* The edges taken in the order perm (a permutation of the edge indices).
Reordered(es, perm) == [i \in 1..Len(es) |-> es[perm[i]]]

EdgeOrders(n) == {f \in [1..n -> 1..n] : \A i, j \in 1..n : i # j => f[i] # f[j]}

\* The fill accumulated over the same edges taken in another order.
FillReordered ==
    /\ pc = "filled"
    /\ pc' = "reordered"
    /\ \E perm \in EdgeOrders(Len(edges)) :
          /\ input' = [input EXCEPT !.order = perm]
          /\ permSquares' = computeFilledSquares(Reordered(edges, perm), input.tileSize)
    /\ UNCHANGED <<storage, vertices, edges, squares, prevSquares, xValues,
                   positions, canvasVars, timerVars, redrawLog>>

SquareCorners == {100, 200}

SquareInit ==
    /\ pc = "start"
    /\ input \in [tileSize : {20}, sides : {4},
                  points : [1..4 -> {Pt(x, y) : x \in SquareCorners, y \in SquareCorners}]]
    /\ Idle

SquareNext == PolygonNew \/ Fill

SpecSquare == SquareInit /\ [][SquareNext]_vars

-----------------------------------------------------------------------------
(* Polygons that lie inside one tile *)

MaxTile == 1

InnerTileSizes == {3, 4}

\* The integer points of tile (col, row) of a grid of tileSize-wide tiles.
TilePoints(col, row, tileSize) ==
    {Pt(col * tileSize + dx, row * tileSize + dy) :
        dx \in 0..(tileSize - 1), dy \in 0..(tileSize - 1)}

TileInit ==
    /\ pc = "start"
    /\ \E t \in InnerTileSizes, col \in 0..MaxTile, row \in 0..MaxTile :
          input \in [tileSize : {t}, sides : {3},
                     points : [1..3 -> TilePoints(col, row, t)]]
    /\ Idle

TileNext == PolygonNew \/ Fill

SpecTile == TileInit /\ [][TileNext]_vars

\* All vertices of vs have their position in tile (col, row).
InTile(vs, col, row, tileSize) ==
    \A i \in 1..Len(vs) :
        LET p == VertexPosition(vs[i])
        IN  /\ IsFinite(p.x) /\ IsFinite(p.y)
            /\ p.x.n \div tileSize = col
            /\ p.y.n \div tileSize = row

-----------------------------------------------------------------------------
(* Polygon construction from options.points *)

Half(k) == [n |-> k, d |-> 2]

PointEntries == {Pt(100, 100), [x |-> Half(401), y |-> Num(50)],
                 [x |-> Num(30), y |-> Half(145)]}

MaxExtraPoints == 1

SeqsUpTo(S, n) == UNION {[1..k -> S] : k \in 0..n}

PointsInit ==
    /\ pc = "start"
    /\ \E s \in {3, 4} :
          input \in [tileSize : {20}, sides : {s},
                     points : SeqsUpTo(PointEntries, s + MaxExtraPoints)]
    /\ Idle

PointsNext == PolygonNew \/ VertexPositions

SpecPoints == PointsInit /\ [][PointsNext]_vars

-----------------------------------------------------------------------------
(* The fill and the order of the edges *)

OrderPoints == {Pt(1, 2), Pt(14, 2), Pt(6, 8), Pt(6, 14), Pt(1, 14), Pt(14, 8)}

OrderInit ==
    /\ pc = "start"
    /\ \E s \in {3, 4} :
          input \in [tileSize : {4}, sides : {s}, order : {<<>>},
                     points : [1..s -> OrderPoints]]
    /\ Idle

OrderNext == PolygonNew \/ Fill \/ FillReordered

SpecOrder == OrderInit /\ [][OrderNext]_vars

-----------------------------------------------------------------------------
(* Collapsing a polygon by moving one vertex *)

CollapseXs == {2, 8, 14}
CollapseYs == {2, 8, 14}

CollapsePoints(s) ==
    {Pt(x, y) : x \in CollapseXs, y \in IF s = 3 THEN CollapseYs ELSE {2, 14}}

CollapseInit ==
    /\ pc = "start"
    /\ \E s \in {3, 4} :
          input \in [tileSize : {4}, sides : {s}, points : [1..s -> CollapsePoints(s)]]
    /\ Idle

CollapseNext ==
    \/ PolygonNew
    \/ Fill
    \/ \E k \in 1..Len(vertices), p \in CollapsePoints(Len(vertices)) : MoveVertex(k, p)

SpecCollapse == CollapseInit /\ [][CollapseNext]_vars

-----------------------------------------------------------------------------
(* The scan-lines of one edge *)

MaxRows == 2

EdgeTileSizes == {4, 5}

EdgeXs == {1, 6}

\* Points of the first MaxRows rows of tiles: canvas y from 0 up.
EdgePoints(tileSize) ==
    {Pt(x, y) : x \in EdgeXs, y \in 0..(MaxRows * tileSize - 1)}

\* accumulateSquaresForEdge(edges[i]) from empty squares and xValues: each
\* scan-line the loop visits finds xValues[y] undefined and stores into it.
AccumulateEdge(i) ==
    /\ pc = "built"
    /\ pc' = "scanned"
    /\ i <= Len(edges)
    /\ input' = [input EXCEPT !.edge = i]
    /\ xValues' = accumulateSquaresForEdge([squares |-> EmptyMap, xValues |-> EmptyMap],
                                           edges[i], Num(input.tileSize)).xValues
    /\ UNCHANGED <<storage, vertices, edges, squares, prevSquares, permSquares,
                   positions, canvasVars, timerVars, redrawLog>>

EdgeInit ==
    /\ pc = "start"
    /\ \E t \in EdgeTileSizes :
          input \in [tileSize : {t}, sides : {3}, edge : {0},
                     points : [1..3 -> EdgePoints(t)]]
    /\ Idle

EdgeNext == PolygonNew \/ \E i \in 1..3 : AccumulateEdge(i)

SpecEdge == EdgeInit /\ [][EdgeNext]_vars

-----------------------------------------------------------------------------
(* The Canvas on its own *)

MaxGridTiles == 2

\* Client lengths giving 0..MaxGridTiles tiles of 20.
ClientLengths == {0} \cup {20 * k - 10 : k \in 1..MaxGridTiles}

GridIndexes == (-1)..MaxGridTiles

RowLists ==
    {<<>>} \cup {<<Num(r)>> : r \in GridIndexes}
           \cup {<<Num(0), Num(r)>> : r \in 0..1}

\* Mappings column -> rows with at most two columns, in and out of the grid.
ActiveTileMaps ==
    UNION {[cols -> RowLists] :
              cols \in {{Num(a), Num(b)} : a \in GridIndexes, b \in GridIndexes} \cup {{}}}

\* Canvas(options) followed by redrawTiles.
CanvasNew ==
    /\ pc = "start"
    /\ pc' = "canvas"
    /\ tiles' = redrawTiles(clientSize, input.tileSize)
    /\ UNCHANGED <<input, storage, vertices, edges, outVars, tilesBefore, clientSize,
                   timerVars, redrawLog>>

\* canvas.setActiveTiles(activeTiles)
SetActiveTiles(activeTiles) ==
    /\ pc \in {"canvas", "painted"}
    /\ pc' = IF pc = "canvas" THEN "painted" ELSE "repainted"
    /\ input' = [input EXCEPT !.activeTiles = activeTiles]
    /\ tilesBefore' = tiles
    /\ tiles' = setActiveTilesDict(tiles, activeTiles)
    /\ UNCHANGED <<storage, vertices, edges, outVars, clientSize, timerVars, redrawLog>>

\* The svg is resized and its 'canvas.resize' listener redrawTiles runs.
CanvasResize(size) ==
    /\ pc = "painted"
    /\ pc' = "canvas"
    /\ size # clientSize
    /\ clientSize' = size
    /\ input' = [input EXCEPT !.activeTiles = EmptyMap]
    /\ tiles' = redrawTiles(size, input.tileSize)
    /\ UNCHANGED <<storage, vertices, edges, outVars, tilesBefore, timerVars, redrawLog>>

CanvasInit ==
    /\ pc = "start"
    /\ input = [tileSize |-> 20, activeTiles |-> EmptyMap]
    /\ storage = [kind |-> "absent"]
    /\ vertices = <<>> /\ edges = <<>>
    /\ squares = EmptyMap /\ prevSquares = EmptyMap /\ permSquares = EmptyMap
    /\ xValues = EmptyMap
    /\ positions = <<>>
    /\ tiles = <<>> /\ tilesBefore = <<>>
    /\ clientSize \in [width : ClientLengths, height : ClientLengths]
    /\ moveTimer = -1 /\ winTimer = -1
    /\ sinceNotify = -1 /\ burstNotes = 0 /\ burstWrites = 0
    /\ redrawLog = <<>>

CanvasNext ==
    \/ CanvasNew
    \/ \E m \in ActiveTileMaps : SetActiveTiles(m)
    \/ \E size \in [width : ClientLengths, height : ClientLengths] : CanvasResize(size)

SpecCanvas == CanvasInit /\ [][CanvasNext]_vars

-----------------------------------------------------------------------------
(* The Rasterizer: construction, vertex moves, timers, resize, reset *)

MoveDelay == 200

ResizeDelay == 100

DefaultSides == 4

\* The granularity of the clock, and how many of the vertices can be dragged.
TickMs == 100

MaxMovable == 2

Min(a, b) == IF a <= b THEN a ELSE b

\* Faulty variant: a pending timer is left running instead of being restarted.
DelayedListenerKeep(timer, delay) == IF timer >= 0 THEN timer ELSE delay

\* fn of createDelayedListener: clearTimeout(resizeTimer), then
\* resizeTimer = setTimeout(cb, delay).  The result is the ms left.
DelayedListenerFn(timer, delay) == delay

\* The timer once fn has run for each of j events.
RECURSIVE TimerAfter(_, _, _)
TimerAfter(timer, delay, j) ==
    IF j = 0 THEN timer ELSE DelayedListenerFn(TimerAfter(timer, delay, j - 1), delay)

\* The record the persistence callback stores.  It is kept here as the value
\* JSON.parse gives back: sides and the coordinates read by position() are
\* integers, which the JSON text carries exactly.
SettingsRecord(vs) ==
    [kind |-> "record", sides |-> sides(vs), points |-> vertexPositions(vs)]

\* Object.assign({sides: 4, points: undefined}, JSON.parse(item || '{}')) for
\* an item that parses: a record overrides the defaults, no item, an empty
\* item or a value that is not a record (null, a number) leaves them.
Settings(item) ==
    IF item.kind = "record"
    THEN [sides |-> item.sides, points |-> item.points]
    ELSE [sides |-> DefaultSides, points |-> <<>>]

\* What one redraw sees: the vertices and the edges it computes the fill from.
Snapshot(vs, es) == [vertices |-> vs, edges |-> es]

\* The tiles once the first j listeners of the moved vertex have run: each
\* updates its edge and emits 'shape.move' on the polygon, whose listener
\* redraw paints the fill of the edges as they are then.
RECURSIVE TilesAfter(_, _, _, _, _, _)
TilesAfter(ts, es, v, ls, j, tileSize) ==
    IF j = 0 THEN ts
    ELSE setActiveTilesDict(TilesAfter(ts, es, v, ls, j - 1, tileSize),
                            computeFilledSquares(EdgesAfter(es, v, ls, j), tileSize))

\* Faulty variant: redraw paints the old grid first, then redrawTiles replaces
\* it by a fresh one, which stays blank.
RedrawThenRebuild(size, tileSize, fill) == redrawTiles(size, tileSize)

\* redrawTiles, then redraw: the order of canvas.redrawTiles(); redraw() in
\* the constructor and of the svg's 'load' and 'canvas.resize' listeners (the
\* Canvas adds redrawTiles before the Rasterizer adds redraw).
RebuildThenRedraw(size, tileSize, fill) ==
    setActiveTilesDict(redrawTiles(size, tileSize), fill)

SystemSizes == {[width |-> 200, height |-> 150], [width |-> 100, height |-> 100]}

MovePoints == {Pt(30, 40), Pt(160, 170)}

StoredRecord ==
    [kind |-> "record", sides |-> 3, points |-> <<Pt(60, 30), Pt(180, 90), Pt(40, 160)>>]

\* The item of localStorage when the page loads: none, the empty text, a text
\* JSON.parse rejects, a JSON value that is no record, a stored record.
StoredItems ==
    {[kind |-> "absent"], [kind |-> "empty"], [kind |-> "unparsable"],
     [kind |-> "nonrecord"], StoredRecord}

Live == pc \in {"constructed", "running"}

\* No timer has reached its deadline: its callback runs before any later event.
NoneDue == moveTimer # 0 /\ winTimer # 0

\* Rasterizer(anchor, options)
Construct ==
    /\ pc = "start"
    /\ IF ~input.anchor \/ storage.kind = "unparsable"
       THEN /\ pc' = "threw"
            /\ UNCHANGED <<vertices, edges, squares, tiles, redrawLog>>
       ELSE /\ pc' = "constructed"
            /\ vertices' = InitVertices(Settings(storage).sides, Settings(storage).points)
            /\ edges' = InitEdges(vertices')
            /\ squares' = computeFilledSquares(edges', input.tileSize)
            /\ tiles' = RebuildThenRedraw(clientSize, input.tileSize, squares')
            /\ redrawLog' = <<Snapshot(vertices', edges')>>
    /\ UNCHANGED <<input, storage, prevSquares, permSquares, xValues, positions, tilesBefore,
                   clientSize, timerVars>>

\* The svg 'load' event: the listeners redrawTiles, then redraw.
SvgLoad ==
    /\ pc = "constructed"
    /\ pc' = "running"
    /\ squares' = computeFilledSquares(edges, input.tileSize)
    /\ tiles' = RebuildThenRedraw(clientSize, input.tileSize, squares')
    /\ redrawLog' = <<Snapshot(vertices, edges)>>
    /\ UNCHANGED <<input, storage, vertices, edges, prevSquares, permSquares, xValues, positions,
                   tilesBefore, clientSize, timerVars>>

\* A drag of vertex k to p: handleMove, the edge listeners of the vertex and,
\* after each of them, the polygon's listeners fn (persistence) and redraw.
VertexMove(k, p) ==
    LET ls == ListenersOf(k, Len(vertices))
        vs == MovedVertices(vertices, k, p.x, p.y)
        sameBurst == sinceNotify >= 0 /\ sinceNotify < MoveDelay
    IN  /\ Live /\ NoneDue
        /\ k <= Len(vertices)
        /\ pc' = "running"
        /\ vertices' = vs
        /\ edges' = EdgesAfter(edges, vs[k], ls, Len(ls))
        /\ squares' = computeFilledSquares(edges', input.tileSize)
        /\ tiles' = TilesAfter(tiles, edges, vs[k], ls, Len(ls), input.tileSize)
        /\ redrawLog' = [j \in 1..Len(ls) |-> Snapshot(vs, EdgesAfter(edges, vs[k], ls, j))]
        /\ moveTimer' = TimerAfter(moveTimer, MoveDelay, Len(ls))
        /\ sinceNotify' = 0
        /\ burstNotes' = Min((IF sameBurst THEN burstNotes ELSE 0) + Len(ls), 2 * MaxMovable)
        /\ burstWrites' = IF sameBurst THEN burstWrites ELSE 0
        /\ UNCHANGED <<input, storage, prevSquares, permSquares, xValues, positions, tilesBefore,
                       clientSize, winTimer>>

\* Time passes, up to the next deadline.
Tick ==
    LET d == Min(TickMs, Min(IF moveTimer > 0 THEN moveTimer ELSE TickMs,
                             IF winTimer > 0 THEN winTimer ELSE TickMs))
    IN  /\ Live /\ NoneDue
        /\ moveTimer > 0 \/ winTimer > 0 \/ (sinceNotify >= 0 /\ sinceNotify < MoveDelay)
        /\ moveTimer' = IF moveTimer > 0 THEN moveTimer - d ELSE moveTimer
        /\ winTimer' = IF winTimer > 0 THEN winTimer - d ELSE winTimer
        /\ sinceNotify' = IF sinceNotify >= 0 THEN Min(sinceNotify + d, MoveDelay)
                          ELSE sinceNotify
        /\ UNCHANGED <<input, pc, storage, vertices, edges, outVars, canvasVars,
                       burstNotes, burstWrites, redrawLog>>

\* The callback of the 'shape.move' delayed listener: localStorage.setItem.
MoveTimerFire ==
    /\ Live
    /\ moveTimer = 0
    /\ moveTimer' = -1
    /\ storage' = SettingsRecord(vertices)
    /\ burstWrites' = Min(burstWrites + 1, 2)
    /\ UNCHANGED <<input, pc, vertices, edges, outVars, canvasVars, winTimer,
                   sinceNotify, burstNotes, redrawLog>>

\* A window 'resize' event: the svg has its new size, fn restarts the timer.
WindowResize(size) ==
    /\ Live /\ NoneDue
    /\ size # clientSize
    /\ pc' = "running"
    /\ clientSize' = size
    /\ winTimer' = DelayedListenerFn(winTimer, ResizeDelay)
    /\ UNCHANGED <<input, storage, vertices, edges, outVars, tiles, tilesBefore,
                   moveTimer, sinceNotify, burstNotes, burstWrites, redrawLog>>

\* The callback of the window 'resize' delayed listener emits 'canvas.resize':
\* the listeners redrawTiles, then redraw.
WinTimerFire ==
    /\ Live
    /\ winTimer = 0
    /\ winTimer' = -1
    /\ squares' = computeFilledSquares(edges, input.tileSize)
    /\ tiles' = RebuildThenRedraw(clientSize, input.tileSize, squares')
    /\ redrawLog' = <<Snapshot(vertices, edges)>>
    /\ UNCHANGED <<input, pc, storage, vertices, edges, prevSquares, permSquares, xValues,
                   positions, tilesBefore, clientSize, moveTimer, sinceNotify,
                   burstNotes, burstWrites>>

\* controlPanel.onReset: localStorage.removeItem, then location.reload().
Reset ==
    /\ Live /\ NoneDue
    /\ pc' = "start"
    /\ storage' = [kind |-> "absent"]
    /\ vertices' = <<>> /\ edges' = <<>>
    /\ squares' = EmptyMap
    /\ tiles' = <<>>
    /\ moveTimer' = -1 /\ winTimer' = -1
    /\ sinceNotify' = -1 /\ burstNotes' = 0 /\ burstWrites' = 0
    /\ redrawLog' = <<>>
    /\ UNCHANGED <<input, prevSquares, permSquares, xValues, positions, tilesBefore, clientSize>>

Init ==
    /\ pc = "start"
    /\ input \in [anchor : BOOLEAN, tileSize : {50}]
    /\ storage \in StoredItems
    /\ vertices = <<>> /\ edges = <<>>
    /\ squares = EmptyMap /\ prevSquares = EmptyMap /\ permSquares = EmptyMap
    /\ xValues = EmptyMap
    /\ positions = <<>>
    /\ tiles = <<>> /\ tilesBefore = <<>>
    /\ clientSize \in SystemSizes
    /\ moveTimer = -1 /\ winTimer = -1
    /\ sinceNotify = -1 /\ burstNotes = 0 /\ burstWrites = 0
    /\ redrawLog = <<>>

Next ==
    \/ Construct
    \/ SvgLoad
    \/ \E k \in 1..MaxMovable : \E p \in MovePoints : VertexMove(k, p)
    \/ Tick
    \/ MoveTimerFire
    \/ \E size \in SystemSizes : WindowResize(size)
    \/ WinTimerFire
    \/ Reset

Spec == Init /\ [][Next]_vars

-----------------------------------------------------------------------------
(* Geometry used to state the properties *)

PositionsOf(vs) == [i \in 1..Len(vs) |-> [x |-> VertexPosition(vs[i]).x.n,
                                           y |-> VertexPosition(vs[i]).y.n]]

\* Twice the signed area of triangle p q r.
Orient(p, q, r) == (q.x - p.x) * (r.y - p.y) - (q.y - p.y) * (r.x - p.x)

Collinear(ps) == \A i, j, k \in 1..Len(ps) : Orient(ps[i], ps[j], ps[k]) = 0

\* A polygon that encloses no area: its vertices are on one line, or it is a
\* four-sided one with a vertex on the opposite vertex, which runs along two
\* segments and back.
ZeroArea(vs) ==
    LET ps == PositionsOf(vs)
    IN  \/ Collinear(ps)
        \/ Len(ps) = 4 /\ (ps[1] = ps[3] \/ ps[2] = ps[4])

Between(a, b, c) == (a <= b /\ b <= c) \/ (c <= b /\ b <= a)

\* r lies on the closed segment p q.
OnSegment(p, q, r) ==
    Orient(p, q, r) = 0 /\ Between(p.x, r.x, q.x) /\ Between(p.y, r.y, q.y)

\* The closed segments p1 p2 and p3 p4 have a point in common.
SegmentsMeet(p1, p2, p3, p4) ==
    \/ /\ Sign(Orient(p1, p2, p3)) * Sign(Orient(p1, p2, p4)) < 0
       /\ Sign(Orient(p3, p4, p1)) * Sign(Orient(p3, p4, p2)) < 0
    \/ OnSegment(p1, p2, p3) \/ OnSegment(p1, p2, p4)
    \/ OnSegment(p3, p4, p1) \/ OnSegment(p3, p4, p2)

\* A simple polygon: distinct vertices, edges that meet only at shared ends.
IsSimple(vs) ==
    LET ps == PositionsOf(vs)
        n == Len(ps)
        nxt(i) == (i % n) + 1
    IN  /\ \A i, j \in 1..n : i # j => ps[i] # ps[j]
        /\ \A i \in 1..n : ~OnSegment(ps[i], ps[nxt(i)], ps[nxt(nxt(i))])
        /\ \A i \in 1..n : ~OnSegment(ps[nxt(i)], ps[nxt(nxt(i))], ps[i])
        /\ \A i, j \in 1..n :
              (i # j /\ nxt(i) # j /\ nxt(j) # i)
                  => ~SegmentsMeet(ps[i], ps[nxt(i)], ps[j], ps[nxt(j)])

\* A strictly convex polygon: every corner turns the same way.
IsConvex(vs) ==
    LET ps == PositionsOf(vs)
        n == Len(ps)
        nxt(i) == (i % n) + 1
        turn(i) == Sign(Orient(ps[i], ps[nxt(i)], ps[nxt(nxt(i))]))
    IN  (\A i \in 1..n : turn(i) = 1) \/ (\A i \in 1..n : turn(i) = -1)

\* The scan-lines the loop of accumulateSquaresForEdge visits for an edge.
RECURSIVE LoopLines(_, _, _)
LoopLines(y, yb, tileSize) ==
    IF ~Le(y, yb) THEN {} ELSE {y} \cup LoopLines(Add(y, tileSize), yb, tileSize)

EdgeScanLines(e, tileSize) ==
    LET half == Div(Num(tileSize), Num(2))
        y1 == Sub(EdgePosition(e).y1, half)
        y2 == Sub(EdgePosition(e).y2, half)
    IN  LoopLines(FirstScanLine(MathMin(y1, y2), Num(tileSize)), MathMax(y1, y2),
                  Num(tileSize))

\* No scan-line is visited for more than two of the edges.
AtMostTwoCrossings(es, tileSize) ==
    \A y \in UNION {EdgeScanLines(es[i], tileSize) : i \in 1..Len(es)} :
        Cardinality({i \in 1..Len(es) : y \in EdgeScanLines(es[i], tileSize)}) <= 2

-----------------------------------------------------------------------------
(* Properties *)

TheSquare == <<Pt(100, 100), Pt(200, 100), Pt(200, 200), Pt(100, 200)>>

\* C1: the fill of the square (100,100),(200,100),(200,200),(100,200) with
\* tileSize 20 is exactly the 25 tiles with column and row in 5..9.
C1_SquareFill ==
    (pc = "filled" /\ input.tileSize = 20 /\ input.points = TheSquare)
        => TilesOf(squares) = {<<c, r>> : c \in 5..9, r \in 5..9}

\* All vertices lie strictly on one side of the centre line of tile row `row`
\* (y < centre for all, or y >= centre for all).
OneSideOfCentre(vs, row, tileSize) ==
    LET ps == PositionsOf(vs)
    IN  \/ \A i \in 1..Len(ps) : 2 * ps[i].y < (2 * row + 1) * tileSize
        \/ \A i \in 1..Len(ps) : 2 * ps[i].y >= (2 * row + 1) * tileSize

C6_CollapseEmpties ==
    (pc = "refilled" /\ prevSquares # EmptyMap /\ ZeroArea(vertices))
        => squares = EmptyMap

\* C7 (as claimed): the tiles of the fill of a simple polygon are the same for
\* every order of its edges.
C7_OrderIrrelevantSimple ==
    (pc = "reordered" /\ IsSimple(vertices))
        => TilesOf(permSquares) = TilesOf(squares)

\* C7 (amended): the tiles of the fill are the same for every order of the
\* edges when no scan-line is crossed by more than two edges, which is the case
\* of every simple, strictly convex polygon.
C7_OrderIrrelevantTwoCrossings ==
    pc = "reordered" =>
        /\ AtMostTwoCrossings(edges, input.tileSize)
              => TilesOf(permSquares) = TilesOf(squares)
        /\ (IsSimple(vertices) /\ IsConvex(vertices))
              => AtMostTwoCrossings(edges, input.tileSize)

C7_Witness ==
    /\ pc = "reordered"
    /\ IsSimple(vertices) /\ IsConvex(vertices) /\ Len(vertices) = 4
    /\ squares # EmptyMap
    /\ \E i \in 1..Len(edges) : input.order[i] # i

\* C8 (as claimed): with fewer than `sides` points every vertex is at its radial
\* default; with at least `sides` points vertex i is at points[i].
C8_AllOrNothing ==
    pc = "built" =>
        \A i \in 1..input.sides :
            vertices[i] =
                IF Len(input.points) >= input.sides
                THEN [cx |-> input.points[i].x, cy |-> input.points[i].y]
                ELSE [cx |-> Radial(i - 1, input.sides).x,
                      cy |-> Radial(i - 1, input.sides).y]

\* C8 (amended): vertex i is at points[i] whenever the list holds an i-th entry,
\* and at its radial default otherwise; so with at least `sides` points every
\* vertex is at its point, and with fewer the first ones still are.
C8_PerIndex ==
    pc = "built" =>
        /\ Len(vertices) = input.sides /\ Len(edges) = input.sides
        /\ \A i \in 1..input.sides :
              vertices[i] =
                  IF i <= Len(input.points)
                  THEN [cx |-> input.points[i].x, cy |-> input.points[i].y]
                  ELSE [cx |-> Radial(i - 1, input.sides).x,
                        cy |-> Radial(i - 1, input.sides).y]

C8_Witness ==
    /\ pc = "built"
    /\ Len(input.points) = 2 /\ input.sides = 4
    /\ vertices[2].cx = input.points[2].x
    /\ vertices[3].cx = Radial(2, 4).x

\* C9: vertexPositions() right after construction from `sides` points returns
\* those points, fractional coordinates included.
C9_RoundTrip ==
    (pc = "read" /\ Len(input.points) = input.sides)
        => \A i \in 1..input.sides :
              /\ positions[i].x = input.points[i].x
              /\ positions[i].y = input.points[i].y

\* Row y of column x is named by the mapping m.
Named(m, col, row) ==
    /\ Num(col) \in DOMAIN m
    /\ \E j \in 1..Len(m[Num(col)]) : m[Num(col)][j] = Num(row)

\* The mapping names some column or row that the grid does not have.
NamesOutside(m, ts) ==
    \E e \in Entries(m) :
        \/ e[2].n < 0 \/ e[2].n >= Len(ts)
        \/ e[1].n < 0 \/ e[1].n >= Len(ts[1])

\* C10: after setActiveTiles(m) the grid keeps its size, a tile at [row][col]
\* is active exactly when m names row under col, and so a tile that was active
\* before the call and is not named is inactive; entries outside the grid
\* change nothing.
C10_ActiveIffNamed ==
    (pc \in {"painted", "repainted"}) =>
        /\ Len(tiles) = Len(tilesBefore)
        /\ \A r \in 1..Len(tiles) :
            /\ Len(tiles[r]) = Len(tilesBefore[r])
            /\ \A c \in 1..Len(tiles[r]) :
                /\ tiles[r][c] = (IF Named(input.activeTiles, c - 1, r - 1)
                                  THEN TileActiveColor ELSE "none")
                /\ (tilesBefore[r][c] = TileActiveColor
                        /\ ~Named(input.activeTiles, c - 1, r - 1))
                    => tiles[r][c] = "none"

\* A second call on a grid with an active tile that the new mapping does not
\* name, where the mapping names a tile of the grid and one outside it.
C10_Witness ==
    /\ pc = "repainted"
    /\ Len(tiles) > 0
    /\ NamesOutside(input.activeTiles, tiles)
    /\ \E r \in 1..Len(tiles) : \E c \in 1..Len(tiles[r]) :
           tilesBefore[r][c] = TileActiveColor /\ tiles[r][c] = "none"
    /\ \E r \in 1..Len(tiles) : \E c \in 1..Len(tiles[r]) :
           tiles[r][c] = TileActiveColor

\* Edge e of a snapshot reads the positions of its two vertices.
EdgeReadsVertices(snap, e) ==
    LET n == Len(snap.vertices)
        l == VertexPosition(snap.vertices[e])
        r == VertexPosition(snap.vertices[(e % n) + 1])
    IN  EdgePosition(snap.edges[e]) = [x1 |-> l.x, y1 |-> l.y, x2 |-> r.x, y2 |-> r.y]

\* C2: every redraw of a handler computes the fill from edges whose positions
\* are those of their current leftVertex and rightVertex; none runs with one
\* edge of the moved vertex updated and the other not.
C2_EdgesFollowVertices ==
    \A i \in 1..Len(redrawLog) :
        \A e \in 1..Len(redrawLog[i].edges) : EdgeReadsVertices(redrawLog[i], e)

\* A storage write is the step that raises burstWrites.
Written == burstWrites' > burstWrites

\* C3: a write happens only when MoveDelay ms have passed since the last
\* 'shape.move' event of the polygon (so never inside a burst), the record it
\* stores holds the sides and vertex positions of that moment, a burst gets no
\* second write, and when the next burst begins the last one has had its write.
C3_Debounced ==
    [][/\ Written =>
            /\ sinceNotify = MoveDelay
            /\ storage' = [kind |-> "record", sides |-> Len(vertices),
                            points |-> [i \in 1..Len(vertices) |->
                                           VertexPosition(vertices[i])]]
       /\ burstWrites' <= 1
       /\ (sinceNotify' = 0 /\ sinceNotify = MoveDelay) => burstWrites = 1]_vars

\* A burst of two moves (four events) has ended and its one write is stored.
C3_Witness ==
    /\ pc = "running"
    /\ burstNotes >= 4
    /\ burstWrites = 1
    /\ sinceNotify = MoveDelay
    /\ moveTimer = -1
    /\ storage = SettingsRecord(vertices)
    /\ \E k \in 1..MaxMovable : \E p \in MovePoints : VertexPosition(vertices[k]) = p

\* C4: a stored item that is present but is no well-formed record is treated
\* as absent: construction does not throw and builds the default polygon.
C4_MalformedAsAbsent ==
    (input.anchor /\ pc \in {"constructed", "threw"}
        /\ storage.kind \in {"empty", "unparsable", "nonrecord"}) =>
        /\ pc = "constructed"
        /\ vertices = InitVertices(DefaultSides, <<>>)
        /\ edges = InitEdges(vertices)

\* The ends of edge e after the half-tile shift y - T/2, lower one first.
ShiftedYs(e, tileSize) ==
    LET half == Div(Num(tileSize), Num(2))
        y1 == Sub(EdgePosition(e).y1, half)
        y2 == Sub(EdgePosition(e).y2, half)
    IN  [min |-> MathMin(y1, y2), max |-> MathMax(y1, y2)]

\* The multiples y of T with min < y <= max.
MultiplesBetween(lo, hi, tileSize) ==
    {Num(k * tileSize) : k \in {j \in (-1)..(MaxRows + 1) :
                                   Lt(lo, Num(j * tileSize)) /\ Le(Num(j * tileSize), hi)}}

\* C11: the scan-lines on which an edge records a crossing are exactly the
\* multiples y of T with min(y1, y2) < y <= max(y1, y2) of the shifted ends,
\* the scan-line y = 0 included when the shifted minimum is negative.
C11_ScanLinesExact ==
    pc = "scanned" =>
        LET ys == ShiftedYs(edges[input.edge], input.tileSize)
        IN  DOMAIN xValues = MultiplesBetween(ys.min, ys.max, input.tileSize)

\* The (column, row) of the tiles of the grid that are displayed as active.
DisplayedTiles(ts) ==
    UNION {{<<c - 1, r - 1>> : c \in {k \in 1..Len(ts[r]) : ts[r][k] = TileActiveColor}} :
              r \in 1..Len(ts)}

\* The (column, row) of all the tiles of the grid.
GridTiles(ts) == UNION {{<<c - 1, r - 1>> : c \in 1..Len(ts[r])} : r \in 1..Len(ts)}

\* C12: once a handler (construction, a vertex move, the svg's 'load', the
\* 'canvas.resize' of a finished window resize) has run to completion, the
\* edges read the current vertices and the tiles displayed as active are the
\* fill of the current polygon restricted to the grid; and unless a window
\* resize still waits for its timer, the grid is the one of the current size.
C12_DisplayIsFill ==
    Live =>
        /\ \A e \in 1..Len(edges) : EdgeReadsVertices(Snapshot(vertices, edges), e)
        /\ DisplayedTiles(tiles) =
              TilesOf(computeFilledSquares(edges, input.tileSize)) \cap GridTiles(tiles)
        /\ winTimer = -1 =>
              /\ Len(tiles) = Steps(clientSize.height, input.tileSize)
              /\ \A r \in 1..Len(tiles) :
                    Len(tiles[r]) = Steps(clientSize.width, input.tileSize)

\* A 'canvas.resize' has been handled after a vertex was dragged: the rebuilt
\* grid shows tiles of the fill, and the fill has tiles the grid does not have.
C12_Witness ==
    /\ pc = "running"
    /\ winTimer = -1
    /\ Len(redrawLog) = 1
    /\ \E k \in 1..Len(vertices) : \E p \in MovePoints : VertexPosition(vertices[k]) = p
    /\ DisplayedTiles(tiles) # {}
    /\ TilesOf(squares) \ GridTiles(tiles) # {}

=============================================================================
